---- MODULE Spec2Model ----
(***************************************************************************)
(* Model of cli/app/app.go of libcompose: the action adapter WithProject,  *)
(* the command handlers Project*, and the goroutines of ProjectUp.         *)
(*                                                                         *)
(* One behaviour is one CLI invocation: a handler bound to a command is    *)
(* run by the closure WithProject returns, against a project the factory   *)
(* creates.  Go strings are sequences of one-character strings.  The       *)
(* project (project.APIProject) is an external collaborator: each of its   *)
(* operations returns an arbitrary result or an error; every call is       *)
(* appended to the log `calls` with its arguments and its result.          *)
(***************************************************************************)
EXTENDS Integers, Sequences, FiniteSets, TLC

VARIABLES
    action,        \* the ProjectAction bound to the command (second argument of WithProject)
    context,       \* the *cli.Context the framework passes to the closure
    stdin,         \* the content of standard input, end of sequence is EOF
    pc,            \* position of the main goroutine
    exit,          \* how the process ended: kind, source line of the terminating call, exit code
    p,             \* project handle the action was invoked with
    c,             \* context the action was invoked with
    factoryCalls,  \* number of calls of factory.Create
    factoryRet,    \* what factory.Create returned: the project and the error
    actionCalls,   \* number of invocations of the action
    calls,         \* log of the project operations called
    stdout,        \* what was printed
    stdinReads,    \* number of fmt.Scanln calls
    stdinPos,      \* number of characters of stdin consumed
    notified,      \* signal.Notify(signalChan, SIGINT, SIGTERM) has been called
    signals,       \* number of termination signals delivered to the process
    signalChan,    \* number of signals buffered in signalChan (capacity 1)
    pcLog,         \* position of the log goroutine   (app.go:136-138)
    pcSig,         \* position of the signal goroutine (app.go:139-151)
    logResult,     \* value the log goroutine is sending / has sent on errChan
    branch,        \* case of the select the signal goroutine took
    cleanupDone    \* number of values sent on (and received from) cleanupDone

vars == <<action, context, stdin, pc, exit, p, c, factoryCalls, factoryRet, actionCalls,
          calls, stdout, stdinReads, stdinPos, notified, signals, signalChan,
          pcLog, pcSig, logResult, branch, cleanupDone>>

upVars == <<notified, signals, signalChan, pcLog, pcSig, logResult, branch, cleanupDone>>
ioVars == <<stdout, stdinReads, stdinPos>>
envVars == <<action, context, stdin>>
adapterVars == <<p, c, factoryCalls, factoryRet, actionCalls>>

----------------------------------------------------------------------------
(* Bounds of the model *)

MaxArgs == 3        \* positional arguments of port, run
MaxScaleArgs == 2   \* positional arguments of scale
MaxTokLen == 3      \* characters of one scale token
MaxLine == 3        \* characters on standard input
MaxSignals == 2     \* termination signals delivered during one invocation
MaxStopped == 2     \* stopped containers listed

----------------------------------------------------------------------------
(* Values *)

nil == "nil"
Errs == {nil, "err"}
Projects == {"p1", "p2"}
NoProject == "none"

\* all sequences over S of length 0..n
RECURSIVE SeqsUpTo(_, _)
SeqsUpTo(S, n) ==
    IF n = 0 THEN {<<>>}
    ELSE LET shorter == SeqsUpTo(S, n - 1)
         IN  shorter \cup {Append(s, x) : s \in {t \in shorter : Len(t) = n - 1}, x \in S}

ServiceNames == {<<"a">>, <<"b">>}
ScaleChars == {"a", "=", "1"}
StdinChars == {"y", "Y", "n", " ", "\n"}
ExitCodes == {0, 3}
ContainerNames == {<<"a", "1">>}

Actions == {"ps", "port", "stop", "down", "build", "create", "up", "run", "start",
            "restart", "log", "pull", "delete", "kill", "pause", "unpause", "scale"}

\* positional arguments an invocation of the command is started with
ArgsFor(a) ==
    CASE a \in {"port", "run"} -> SeqsUpTo(ServiceNames, MaxArgs)
      [] a = "scale" -> SeqsUpTo(SeqsUpTo(ScaleChars, MaxTokLen), MaxScaleArgs)
      [] OTHER -> SeqsUpTo(ServiceNames, 1)

\* the flags the handlers branch on: c.Bool("d"), c.Bool("force")
Contexts(a) ==
    [args : ArgsFor(a),
     d : IF a = "up" THEN BOOLEAN ELSE {FALSE},
     force : IF a = "delete" THEN BOOLEAN ELSE {FALSE}]

StdinFor(a) ==
    IF a = "delete" THEN SeqsUpTo(StdinChars, MaxLine) ELSE {<<"y", "\n">>}

NoContext == [args |-> <<>>, d |-> FALSE, force |-> FALSE]
Running == [kind |-> "none", line |-> 0, code |-> 0]

\* one call of a project operation: its name, receiver, arguments and results
Call(op, a, ret, err) == [op |-> op, proj |-> p, a |-> a, ret |-> ret, err |-> err]

----------------------------------------------------------------------------
(* Process termination *)

\* logrus.Fatal / logrus.Fatalf at the given source line: logs, then os.Exit(1)
Fatal(line) ==
    /\ pc' = "exited"
    /\ exit' = [kind |-> "fatal", line |-> line, code |-> 1]

\* a run-time panic that nothing recovers: the Go runtime exits with status 2
Panic(line) ==
    /\ pc' = "exited"
    /\ exit' = [kind |-> "panic", line |-> line, code |-> 2]

\* os.Exit(code)
OsExit(line, code) ==
    /\ pc' = "exited"
    /\ exit' = [kind |-> "osexit", line |-> line, code |-> code]

\* the handler returns to the closure, the closure to the framework: status 0
Return ==
    /\ pc' = "returned"
    /\ exit' = [kind |-> "return", line |-> 0, code |-> 0]

----------------------------------------------------------------------------
\* the state of the process when the framework calls the closure
Fresh ==
    /\ pc = "start"
    /\ exit = Running
    /\ p = NoProject
    /\ c = NoContext
    /\ factoryCalls = 0
    /\ factoryRet = [proj |-> NoProject, err |-> nil]
    /\ actionCalls = 0
    /\ calls = <<>>
    /\ stdout = <<>>
    /\ stdinReads = 0
    /\ stdinPos = 0
    /\ notified = FALSE
    /\ signals = 0
    /\ signalChan = 0
    /\ pcLog = "idle"
    /\ pcSig = "idle"
    /\ logResult = nil
    /\ branch = "none"
    /\ cleanupDone = 0

Init ==
    /\ action \in Actions
    /\ context \in Contexts(action)
    /\ stdin \in StdinFor(action)
    /\ Fresh

----------------------------------------------------------------------------
(* WithProject: the closure registered as the command's action *)

\* WithProject without the exit of line 41: the action runs on the nil project
WithProjectContinues ==
    /\ pc = "start"
    /\ factoryCalls' = factoryCalls + 1
    /\ \E ret \in {[proj |-> created, err |-> nil] : created \in Projects}
                    \cup {[proj |-> NoProject, err |-> "err"]} :
          /\ factoryRet' = ret
          /\ p' = ret.proj
          /\ c' = context
          /\ actionCalls' = actionCalls + 1
          /\ pc' = "action"
          /\ exit' = exit
    /\ UNCHANGED <<envVars, calls, ioVars, upVars>>

\* results of factory.Create
FactoryResults ==
    {[proj |-> created, err |-> nil] : created \in Projects}
        \cup {[proj |-> NoProject, err |-> "err"]}

WithProject ==
    /\ pc = "start"
    /\ factoryCalls' = factoryCalls + 1
    /\ \E ret \in FactoryResults :
          /\ factoryRet' = ret
          /\ IF ret.err # nil
             THEN /\ Fatal(41)
                  /\ UNCHANGED <<p, c, actionCalls>>
             ELSE /\ p' = ret.proj
                  /\ c' = context
                  /\ actionCalls' = actionCalls + 1
                  /\ pc' = "action"
                  /\ exit' = exit
    /\ UNCHANGED <<envVars, calls, ioVars, upVars>>

\* the action is running and is the handler h
Invoked(h) == pc = "action" /\ action = h

----------------------------------------------------------------------------
(* Handlers that make one project call and print nothing *)

\* a handler that drops the error of its call and returns
SimpleHandlerIgnoresError(h, op, line) ==
    /\ Invoked(h)
    /\ \E err \in Errs : calls' = Append(calls, Call(op, c.args, nil, err))
    /\ Return
    /\ UNCHANGED <<envVars, adapterVars, ioVars, upVars>>

\* err := p.Op(..., c.Args()...); if err != nil { logrus.Fatal(err) }
SimpleHandler(h, op, line) ==
    /\ Invoked(h)
    /\ \E err \in Errs :
          /\ calls' = Append(calls, Call(op, c.args, nil, err))
          /\ IF err # nil THEN Fatal(line) ELSE Return
    /\ UNCHANGED <<envVars, adapterVars, ioVars, upVars>>

ProjectStop == SimpleHandler("stop", "Stop", 79)
ProjectDown == SimpleHandler("down", "Down", 90)
ProjectBuild == SimpleHandler("build", "Build", 101)
ProjectCreate == SimpleHandler("create", "Create", 114)
ProjectStart == SimpleHandler("start", "Start", 177)
ProjectRestart == SimpleHandler("restart", "Restart", 185)
ProjectLog == SimpleHandler("log", "Log", 193)
ProjectPull == SimpleHandler("pull", "Pull", 201)
ProjectKill == SimpleHandler("kill", "Kill", 239)
ProjectPause == SimpleHandler("pause", "Pause", 247)
ProjectUnpause == SimpleHandler("unpause", "Unpause", 255)

ProjectPs ==
    /\ Invoked("ps")
    /\ \E err \in Errs :
          /\ calls' = Append(calls, Call("Ps", c.args, "allInfo", err))
          /\ IF err # nil
             THEN Fatal(52) /\ stdout' = stdout
             ELSE Return /\ stdout' = Append(stdout, "allInfo")
    /\ UNCHANGED <<envVars, adapterVars, stdinReads, stdinPos, upVars>>

----------------------------------------------------------------------------
(* ProjectPort *)

\* the argument check written as len(c.Args()) < 2
PortArgsTooFew(args) == Len(args) < 2

\* len(c.Args()) != 2
PortArgsInvalid(args) == Len(args) # 2

ProjectPort ==
    /\ Invoked("port")
    /\ IF PortArgsInvalid(c.args)
       THEN \* the Fatalf of line 60 exits before c.Args()[0] is evaluated
            Fatal(60) /\ UNCHANGED <<calls, stdout>>
       ELSE LET serviceName == c.args[1]
                privatePort == c.args[2]
            IN  \E err \in Errs :
                   /\ calls' = Append(calls, Call("Port", <<serviceName, privatePort>>, "port", err))
                   /\ IF err # nil
                      THEN Fatal(70) /\ stdout' = stdout
                      ELSE Return /\ stdout' = Append(stdout, "port")
    /\ UNCHANGED <<envVars, adapterVars, stdinReads, stdinPos, upVars>>

----------------------------------------------------------------------------
(* ProjectRun *)

\* len(c.Args()) == 1
RunNoService(args) == Len(args) = 1

ProjectRun ==
    /\ Invoked("run")
    /\ IF RunNoService(c.args)
       THEN Fatal(159) /\ calls' = calls
       ELSE IF Len(c.args) = 0
       THEN \* c.Args()[0]: index out of range
            Panic(162) /\ calls' = calls
       ELSE LET serviceName == c.args[1]
                commandParts == Tail(c.args)
            IN  \E exitCode \in ExitCodes, err \in Errs :
                   /\ calls' = Append(calls, Call("Run", <<serviceName, commandParts>>, exitCode, err))
                   /\ IF err # nil THEN Fatal(167) ELSE OsExit(170, exitCode)
    /\ UNCHANGED <<envVars, adapterVars, ioVars, upVars>>

----------------------------------------------------------------------------
(* fmt.Scanln(&answer) on standard input (package fmt: doScan, convertString, *)
(* SkipSpace, token), for one string operand                                 *)

IsSpace(r) == r \in {" ", "\t", "\n", "\r"}

\* ss.SkipSpace with nlIsSpace false: i is the index of the next rune to read
RECURSIVE SkipSpace(_, _)
SkipSpace(s, i) ==
    IF i > Len(s) THEN [pos |-> i, err |-> nil]
    ELSE IF s[i] = "\r" /\ i < Len(s) /\ s[i + 1] = "\n" THEN SkipSpace(s, i + 1)
    ELSE IF s[i] = "\n" THEN [pos |-> i + 1, err |-> "unexpected newline"]
    ELSE IF ~IsSpace(s[i]) THEN [pos |-> i, err |-> nil]
    ELSE SkipSpace(s, i + 1)

\* ss.token(true, notSpace): the index after the last rune of the word starting at i
RECURSIVE TokenEnd(_, _)
TokenEnd(s, i) ==
    IF i > Len(s) \/ IsSpace(s[i]) THEN i ELSE TokenEnd(s, i + 1)

\* the nlIsEnd loop of doScan: only blanks may follow the operand up to newline or EOF
RECURSIVE ExpectNewline(_, _)
ExpectNewline(s, i) ==
    IF i > Len(s) THEN [pos |-> i, err |-> nil]
    ELSE IF s[i] = "\n" THEN [pos |-> i + 1, err |-> nil]
    ELSE IF ~IsSpace(s[i]) THEN [pos |-> i + 1, err |-> "expected newline"]
    ELSE ExpectNewline(s, i + 1)

\* the word stored in the operand, the error returned, the runes consumed
Scanln(s) ==
    LET sk == SkipSpace(s, 1)
    IN  IF sk.err # nil
        THEN [answer |-> <<>>, err |-> sk.err, read |-> sk.pos - 1]
        ELSE IF sk.pos > Len(s)
        THEN [answer |-> <<>>, err |-> "EOF", read |-> Len(s)]
        ELSE LET e == TokenEnd(s, sk.pos)
                 nl == ExpectNewline(s, e)
             IN  [answer |-> SubSeq(s, sk.pos, e - 1), err |-> nl.err, read |-> nl.pos - 1]

----------------------------------------------------------------------------
(* ProjectDelete *)

\* the emptiness check written as len(stoppedContainers) == 1
NothingToDeleteOffByOne(stoppedContainers) == Len(stoppedContainers) = 1

\* len(stoppedContainers) == 0
NothingToDelete(stoppedContainers) == Len(stoppedContainers) = 0

\* the confirmation check written as answer == "n"
DeclinedOnlyN(answer) == answer = <<"n">>

\* a confirmation asked for also when the force flag is set
MustConfirmAlways(ctx) == TRUE

\* !c.Bool("force")
MustConfirm(ctx) == ~ctx.force

\* answer != "y" && answer != "Y"
Declined(answer) == answer # <<"y">> /\ answer # <<"Y">>

\* results of p.ListStoppedContainers
ListResults ==
    {[ret |-> s, err |-> nil] : s \in SeqsUpTo(ContainerNames, MaxStopped)}
        \cup {[ret |-> <<>>, err |-> "err"]}

\* lines 226-232: err = p.Delete(options, c.Args()...)
DeleteCall(listCall) ==
    \E err \in Errs :
       /\ calls' = calls \o <<listCall, Call("Delete", c.args, nil, err)>>
       /\ IF err # nil THEN Fatal(231) ELSE Return

ProjectDelete ==
    /\ Invoked("delete")
    /\ \E list \in ListResults :
          LET stoppedContainers == list.ret
              listCall == Call("ListStoppedContainers", c.args, list.ret, list.err)
          IN  IF list.err # nil
              THEN /\ Fatal(209)
                   /\ calls' = Append(calls, listCall)
                   /\ UNCHANGED ioVars
              ELSE IF NothingToDelete(stoppedContainers)
              THEN /\ Return
                   /\ calls' = Append(calls, listCall)
                   /\ stdout' = Append(stdout, "No stopped containers")
                   /\ UNCHANGED <<stdinReads, stdinPos>>
              ELSE IF MustConfirm(c)
              THEN LET scan == Scanln(SubSeq(stdin, stdinPos + 1, Len(stdin)))
                   IN  /\ stdout' = Append(stdout, "Are you sure? [yN]")
                       /\ stdinReads' = stdinReads + 1
                       /\ stdinPos' = stdinPos + scan.read
                       /\ IF scan.err # nil
                          THEN Fatal(220) /\ calls' = Append(calls, listCall)
                          ELSE IF Declined(scan.answer)
                          THEN Return /\ calls' = Append(calls, listCall)
                          ELSE DeleteCall(listCall)
              ELSE /\ DeleteCall(listCall)
                   /\ UNCHANGED ioVars
    /\ UNCHANGED <<envVars, adapterVars, upVars>>

----------------------------------------------------------------------------
(* ProjectScale *)

Digits == {"0", "1", "2", "3", "4", "5", "6", "7", "8", "9"}

DigitVal(d) ==
    CASE d = "0" -> 0 [] d = "1" -> 1 [] d = "2" -> 2 [] d = "3" -> 3 [] d = "4" -> 4
      [] d = "5" -> 5 [] d = "6" -> 6 [] d = "7" -> 7 [] d = "8" -> 8 [] d = "9" -> 9

\* strings.SplitN(arg, "=", 2): cut at the first "=", if there is one
SplitN2(arg) ==
    LET eqs == {i \in 1..Len(arg) : arg[i] = "="}
    IN  IF eqs = {} THEN <<arg>>
        ELSE LET k == CHOOSE i \in eqs : \A j \in eqs : i <= j
             IN  <<SubSeq(arg, 1, k - 1), SubSeq(arg, k + 1, Len(arg))>>

RECURSIVE DecimalValue(_)
DecimalValue(s) ==
    IF Len(s) = 0 THEN 0
    ELSE 10 * DecimalValue(SubSeq(s, 1, Len(s) - 1)) + DigitVal(s[Len(s)])

\* an Atoi that converts the empty string to 0
AtoiEmptyIsZero(s) ==
    LET signed == Len(s) > 0 /\ s[1] \in {"+", "-"}
        digits == IF signed THEN Tail(s) ELSE s
    IN  IF \E i \in 1..Len(digits) : digits[i] \notin Digits
        THEN [n |-> 0, err |-> "err"]
        ELSE [n |-> IF signed /\ s[1] = "-" THEN 0 - DecimalValue(digits) ELSE DecimalValue(digits),
              err |-> nil]

\* strconv.Atoi: an optional sign, then one or more decimal digits
Atoi(s) ==
    LET signed == Len(s) > 0 /\ s[1] \in {"+", "-"}
        digits == IF signed THEN Tail(s) ELSE s
    IN  IF Len(digits) = 0 \/ \E i \in 1..Len(digits) : digits[i] \notin Digits
        THEN [n |-> 0, err |-> "err"]
        ELSE [n |-> IF signed /\ s[1] = "-" THEN 0 - DecimalValue(digits) ELSE DecimalValue(digits),
              err |-> nil]

\* an assignment that keeps the count of a name the map already has
MapPutFirstWins(m, name, count) ==
    [k \in DOMAIN m \cup {name} |-> IF k \in DOMAIN m THEN m[k] ELSE count]

\* servicesScale[name] = count
MapPut(m, name, count) ==
    [k \in DOMAIN m \cup {name} |-> IF k = name THEN count ELSE m[k]]

\* the loop of lines 262-276 from the i-th argument on: the line of the Fatalf it
\* stops at (0 when it completes) and the map built
RECURSIVE ScaleLoop(_, _, _)
ScaleLoop(args, i, servicesScale) ==
    IF i > Len(args) THEN [line |-> 0, m |-> servicesScale]
    ELSE LET kv == SplitN2(args[i])
         IN  IF Len(kv) # 2 THEN [line |-> 265, m |-> servicesScale]
             ELSE LET name == kv[1]
                      conv == Atoi(kv[2])
                  IN  IF conv.err # nil THEN [line |-> 272, m |-> servicesScale]
                      ELSE ScaleLoop(args, i + 1, MapPut(servicesScale, name, conv.n))

ProjectScale ==
    /\ Invoked("scale")
    /\ LET parsed == ScaleLoop(c.args, 1, <<>>)
       IN  IF parsed.line # 0
           THEN Fatal(parsed.line) /\ calls' = calls
           ELSE \E err \in Errs :
                   /\ calls' = Append(calls, Call("Scale", parsed.m, nil, err))
                   /\ IF err # nil THEN Fatal(280) ELSE Return
    /\ UNCHANGED <<envVars, adapterVars, ioVars, upVars>>

----------------------------------------------------------------------------
(* ProjectUp: the main goroutine, the log goroutine, the signal goroutine *)

\* the process has not exited: its goroutines can take steps
Alive == exit.kind = "none"

\* ProjectUp going on to attach when p.Up failed
ProjectUpIgnoresUpError ==
    /\ Invoked("up")
    /\ \E err \in Errs :
          /\ calls' = Append(calls, Call("Up", c.args, nil, err))
          /\ IF c.d
             THEN Return /\ UNCHANGED upVars
             ELSE /\ notified' = TRUE
                  /\ pcLog' = "start"
                  /\ pcSig' = "select"
                  /\ pc' = "wait"
                  /\ exit' = exit
                  /\ UNCHANGED <<signals, signalChan, logResult, branch, cleanupDone>>
    /\ UNCHANGED <<envVars, adapterVars, ioVars>>

\* ProjectUp attaching whatever the d flag says
ProjectUpAlwaysAttached ==
    /\ Invoked("up")
    /\ \E err \in Errs :
          /\ calls' = Append(calls, Call("Up", c.args, nil, err))
          /\ IF err # nil
             THEN Fatal(129) /\ UNCHANGED upVars
             ELSE /\ notified' = TRUE
                  /\ pcLog' = "start"
                  /\ pcSig' = "select"
                  /\ pc' = "wait"
                  /\ exit' = exit
                  /\ UNCHANGED <<signals, signalChan, logResult, branch, cleanupDone>>
    /\ UNCHANGED <<envVars, adapterVars, ioVars>>

\* lines 120-135 and the two go statements; then the main goroutine is at <-cleanupDone
ProjectUp ==
    /\ Invoked("up")
    /\ \E err \in Errs :
          /\ calls' = Append(calls, Call("Up", c.args, nil, err))
          /\ IF err # nil
             THEN Fatal(129) /\ UNCHANGED upVars
             ELSE IF c.d
             THEN Return /\ UNCHANGED upVars
             ELSE /\ notified' = TRUE
                  /\ pcLog' = "start"
                  /\ pcSig' = "select"
                  /\ pc' = "wait"
                  /\ exit' = exit
                  /\ UNCHANGED <<signals, signalChan, logResult, branch, cleanupDone>>
    /\ UNCHANGED <<envVars, adapterVars, ioVars>>

\* the operating system delivers SIGINT or SIGTERM; package signal does a
\* non-blocking send on signalChan (capacity 1)
SignalDelivered ==
    /\ Alive
    /\ notified
    /\ signals < MaxSignals
    /\ signals' = signals + 1
    /\ signalChan' = IF signalChan < 1 THEN signalChan + 1 ELSE signalChan
    /\ UNCHANGED <<envVars, pc, exit, adapterVars, calls, ioVars, notified,
                   pcLog, pcSig, logResult, branch, cleanupDone>>

\* line 137: the log goroutine calls p.Log(true, c.Args()...), which blocks
LogTaskCall ==
    /\ Alive
    /\ pcLog = "start"
    /\ pcLog' = "logging"
    /\ \E err \in Errs : calls' = Append(calls, Call("Log", c.args, nil, err))
    /\ UNCHANGED <<envVars, pc, exit, adapterVars, ioVars, notified, signals,
                   signalChan, pcSig, logResult, branch, cleanupDone>>

\* the index in calls of the call of op, 0 when there is none
CallIndex(op) ==
    IF \E i \in 1..Len(calls) : calls[i].op = op
    THEN CHOOSE i \in 1..Len(calls) : calls[i].op = op
    ELSE 0

\* a send on a buffered errChan: it completes with no receiver
LogTaskReturnBuffered ==
    /\ Alive
    /\ pcLog = "logging"
    /\ pcLog' = "done"
    /\ logResult' = calls[CallIndex("Log")].err
    /\ UNCHANGED <<envVars, pc, exit, adapterVars, calls, ioVars, notified, signals,
                   signalChan, pcSig, branch, cleanupDone>>

\* p.Log returns: the log goroutine is at the send `errChan <- ...`
LogTaskReturn ==
    /\ Alive
    /\ pcLog = "logging"
    /\ pcLog' = "send"
    /\ logResult' = calls[CallIndex("Log")].err
    /\ UNCHANGED <<envVars, pc, exit, adapterVars, calls, ioVars, notified, signals,
                   signalChan, pcSig, branch, cleanupDone>>

\* the signal case without the call of ProjectStop
SelectSignalNoStop ==
    /\ Alive
    /\ pcSig = "select"
    /\ signalChan > 0
    /\ signalChan' = signalChan - 1
    /\ branch' = "signal"
    /\ stdout' = Append(stdout, "Gracefully stopping...")
    /\ pcSig' = "sendDone"
    /\ UNCHANGED <<envVars, pc, exit, adapterVars, calls, stdinReads, stdinPos, notified,
                   signals, pcLog, logResult, cleanupDone>>

\* select, case <-signalChan: lines 141-143 up to the call of p.Stop in ProjectStop
SelectSignal ==
    /\ Alive
    /\ pcSig = "select"
    /\ signalChan > 0
    /\ signalChan' = signalChan - 1
    /\ branch' = "signal"
    /\ stdout' = Append(stdout, "Gracefully stopping...")
    /\ \E err \in Errs : calls' = Append(calls, Call("Stop", c.args, nil, err))
    /\ pcSig' = "stopping"
    /\ UNCHANGED <<envVars, pc, exit, adapterVars, stdinReads, stdinPos, notified,
                   signals, pcLog, logResult, cleanupDone>>

\* the signal case ending without the send on cleanupDone
StopReturnNoCompletion ==
    /\ Alive
    /\ pcSig = "stopping"
    /\ IF calls[CallIndex("Stop")].err # nil
       THEN Fatal(79) /\ pcSig' = pcSig
       ELSE pcSig' = "done" /\ UNCHANGED <<pc, exit>>
    /\ UNCHANGED <<envVars, adapterVars, calls, ioVars, notified, signals, signalChan,
                   pcLog, logResult, branch, cleanupDone>>

\* p.Stop returns inside ProjectStop (lines 77-80), called from line 143
StopReturn ==
    /\ Alive
    /\ pcSig = "stopping"
    /\ IF calls[CallIndex("Stop")].err # nil
       THEN Fatal(79) /\ pcSig' = pcSig
       ELSE pcSig' = "sendDone" /\ UNCHANGED <<pc, exit>>
    /\ UNCHANGED <<envVars, adapterVars, calls, ioVars, notified, signals, signalChan,
                   pcLog, logResult, branch, cleanupDone>>

\* a receive from errChan that is also taken after the signal case
SelectErrAnytime ==
    /\ Alive
    /\ pcSig \in {"select", "stopping", "sendDone"}
    /\ pcLog = "send"
    /\ pcLog' = "done"
    /\ branch' = IF branch = "none" THEN "err" ELSE branch
    /\ IF logResult # nil
       THEN Fatal(147) /\ pcSig' = pcSig
       ELSE pcSig' = "sendDone" /\ UNCHANGED <<pc, exit>>
    /\ UNCHANGED <<envVars, adapterVars, calls, ioVars, notified, signals, signalChan,
                   logResult, cleanupDone>>

\* the errChan case without the test of err: completion is signalled on an error too
SelectErrIgnoresError ==
    /\ Alive
    /\ pcSig = "select"
    /\ pcLog = "send"
    /\ pcLog' = "done"
    /\ branch' = "err"
    /\ pcSig' = "sendDone"
    /\ UNCHANGED <<envVars, pc, exit, adapterVars, calls, ioVars, notified, signals,
                   signalChan, logResult, cleanupDone>>

\* the errChan case stopping the project when the log stream ends without error
SelectErrStops ==
    /\ Alive
    /\ pcSig = "select"
    /\ pcLog = "send"
    /\ pcLog' = "done"
    /\ branch' = "err"
    /\ IF logResult # nil
       THEN Fatal(147) /\ pcSig' = pcSig /\ calls' = calls
       ELSE /\ \E err \in Errs : calls' = Append(calls, Call("Stop", c.args, nil, err))
            /\ pcSig' = "stopping"
            /\ UNCHANGED <<pc, exit>>
    /\ UNCHANGED <<envVars, adapterVars, ioVars, notified, signals, signalChan,
                   logResult, cleanupDone>>

\* select, case err := <-errChan: the unbuffered send of the log goroutine and
\* this receive happen together; lines 145-148
SelectErr ==
    /\ Alive
    /\ pcSig = "select"
    /\ pcLog = "send"
    /\ pcLog' = "done"
    /\ branch' = "err"
    /\ IF logResult # nil
       THEN Fatal(147) /\ pcSig' = pcSig
       ELSE pcSig' = "sendDone" /\ UNCHANGED <<pc, exit>>
    /\ UNCHANGED <<envVars, adapterVars, calls, ioVars, notified, signals, signalChan,
                   logResult, cleanupDone>>

\* a main goroutine that does not wait for the value on cleanupDone
CleanupDoneNoWait ==
    /\ Alive
    /\ pc = "wait"
    /\ cleanupDone' = IF pcSig = "sendDone" THEN cleanupDone + 1 ELSE cleanupDone
    /\ pcSig' = IF pcSig = "sendDone" THEN "done" ELSE pcSig
    /\ Return
    /\ UNCHANGED <<envVars, adapterVars, calls, ioVars, notified, signals, signalChan,
                   pcLog, logResult, branch>>

\* cleanupDone <- true (line 144 or 149) meets <-cleanupDone (line 152);
\* ProjectUp returns
CleanupDone ==
    /\ Alive
    /\ pcSig = "sendDone"
    /\ pc = "wait"
    /\ cleanupDone' = cleanupDone + 1
    /\ pcSig' = "done"
    /\ Return
    /\ UNCHANGED <<envVars, adapterVars, calls, ioVars, notified, signals, signalChan,
                   pcLog, logResult, branch>>

----------------------------------------------------------------------------
Next ==
    \/ WithProject
    \/ ProjectPs
    \/ ProjectPort
    \/ ProjectStop
    \/ ProjectDown
    \/ ProjectBuild
    \/ ProjectCreate
    \/ ProjectRun
    \/ ProjectStart
    \/ ProjectRestart
    \/ ProjectLog
    \/ ProjectPull
    \/ ProjectKill
    \/ ProjectPause
    \/ ProjectUnpause
    \/ ProjectDelete
    \/ ProjectScale
    \/ ProjectUp
    \/ SignalDelivered
    \/ LogTaskCall
    \/ LogTaskReturn
    \/ SelectSignal
    \/ StopReturn
    \/ SelectErr
    \/ CleanupDone

Spec == Init /\ [][Next]_vars

----------------------------------------------------------------------------
(* Invocations of up, with the scheduling of the goroutines *)

UpInit ==
    /\ action = "up"
    /\ context \in Contexts("up")
    /\ stdin \in StdinFor("up")
    /\ Fresh

UpNext ==
    \/ WithProject
    \/ ProjectUp
    \/ SignalDelivered
    \/ LogTaskCall
    \/ LogTaskReturn
    \/ SelectSignal
    \/ StopReturn
    \/ SelectErr
    \/ CleanupDone

\* a goroutine that can take a step takes it, a select with a ready case
\* proceeds, p.Stop returns; a signal need not arrive and p.Log need not return
UpFairness ==
    /\ WF_vars(WithProject)
    /\ WF_vars(ProjectUp)
    /\ WF_vars(LogTaskCall)
    /\ WF_vars(SelectSignal)
    /\ WF_vars(SelectErr)
    /\ WF_vars(StopReturn)
    /\ WF_vars(CleanupDone)

UpFairSpec == UpInit /\ [][UpNext]_vars /\ UpFairness

----------------------------------------------------------------------------
(* Invocations of scale with tokens over two digits *)

ScaleCharsWide == {"a", "=", "1", "2"}

ScaleInit ==
    /\ action = "scale"
    /\ context \in [args : SeqsUpTo(SeqsUpTo(ScaleCharsWide, MaxTokLen), MaxScaleArgs),
                     d : {FALSE}, force : {FALSE}]
    /\ stdin = <<>>
    /\ Fresh

ScaleNext ==
    \/ WithProject
    \/ ProjectScale

ScaleSpec == ScaleInit /\ [][ScaleNext]_vars

----------------------------------------------------------------------------
(* Properties *)

\* number of calls of the project operation op
NumCalls(op) == Cardinality({i \in 1..Len(calls) : calls[i].op = op})

\* the action was invoked and has ended (returned, or ended the process)
HandlerFinished == actionCalls = 1 /\ pc \in {"returned", "exited"}

\* the process ended in the logrus.Fatal call of the given line
FatalAt(line) == exit.kind = "fatal" /\ exit.line = line /\ exit.code # 0

\* the error the graceful stop returns
StopErr == calls[CallIndex("Stop")].err

\* C1 as stated: when the signal goroutine took the signal case, then at the end
\* of the invocation stop was called exactly once, completion was signalled
\* exactly once and the process did not end in the log-error Fatal of line 147.
C1_Original ==
    (branch = "signal" /\ exit.kind # "none") =>
        /\ NumCalls("Stop") = 1
        /\ cleanupDone = 1
        /\ ~FatalAt(147)

\* C1, amended: when the signal goroutine took the signal case, stop is called
\* exactly once and the log-error Fatal of line 147 is never reached, also when
\* p.Log returns an error later; when p.Stop returns nil, completion is
\* signalled exactly once and ProjectUp returns; when p.Stop returns an error,
\* the process ends in the Fatal of ProjectStop (line 79) and completion is
\* never signalled.
C1_SignalFirst ==
    branch = "signal" =>
        /\ NumCalls("Stop") = 1
        /\ ~FatalAt(147)
        /\ cleanupDone <= 1
        /\ StopErr = nil =>
              /\ exit.kind \in {"none", "return"}
              /\ exit.kind = "return" <=> cleanupDone = 1
        /\ StopErr # nil =>
              /\ cleanupDone = 0
              /\ exit.kind = "none" \/ FatalAt(79)

\* the signal case was taken, p.Log returned an error afterwards and blocks on
\* its send, the stop succeeded and ProjectUp returned
C1_Witness ==
    /\ branch = "signal"
    /\ pcLog = "send"
    /\ logResult # nil
    /\ exit.kind = "return"
    /\ cleanupDone = 1

\* C2: when the signal goroutine received the log result first and it is an
\* error, the process ends in the Fatal of line 147 with a non-zero status,
\* stop is never called and completion is never signalled.
C2_LogErrorFirst ==
    (branch = "err" /\ logResult # nil) =>
        /\ FatalAt(147)
        /\ NumCalls("Stop") = 0
        /\ cleanupDone = 0
        /\ pcSig # "done"

\* the log error was received while a termination signal was pending as well
C2_Witness ==
    /\ branch = "err"
    /\ logResult # nil
    /\ signalChan = 1
    /\ FatalAt(147)

\* C3: when the signal goroutine received the log result first and it is nil,
\* stop is never called, no Fatal is reached, completion is signalled at most
\* once, exactly once when ProjectUp has returned, and until then the hand-over
\* on cleanupDone that makes ProjectUp return is possible.
C3_LogNilFirst ==
    (branch = "err" /\ logResult = nil) =>
        /\ NumCalls("Stop") = 0
        /\ exit.kind \in {"none", "return"}
        /\ cleanupDone <= 1
        /\ exit.kind = "return" <=> cleanupDone = 1
        /\ exit.kind = "none" => ENABLED CleanupDone

\* a nil log result was received, a termination signal arrived and stays
\* unread, ProjectUp returned
C3_Witness ==
    /\ branch = "err"
    /\ logResult = nil
    /\ signalChan = 1
    /\ exit.kind = "return"
    /\ cleanupDone = 1

\* the first line of standard input, without its newline
ConfirmationLine(s) ==
    LET nls == {i \in 1..Len(s) : s[i] = "\n"}
    IN  IF nls = {} THEN s
        ELSE SubSeq(s, 1, (CHOOSE i \in nls : \A j \in nls : i <= j) - 1)

\* the line is terminated by a newline: it is read without reaching EOF
LineTerminated(s) == \E i \in 1..Len(s) : s[i] = "\n"

\* s without the white space at its ends
RECURSIVE StripSpace(_)
StripSpace(s) ==
    IF Len(s) = 0 THEN s
    ELSE IF IsSpace(s[1]) THEN StripSpace(Tail(s))
    ELSE IF IsSpace(s[Len(s)]) THEN StripSpace(SubSeq(s, 1, Len(s) - 1))
    ELSE s

Yes == {<<"y">>, <<"Y">>}

\* ProjectDelete ran, the list of stopped containers was not empty, no force flag
DeleteAsked ==
    /\ action = "delete"
    /\ HandlerFinished
    /\ ~c.force
    /\ calls[1].op = "ListStoppedContainers"
    /\ calls[1].err = nil
    /\ calls[1].ret # <<>>

\* C4 as stated: with a non-empty list and no force flag, for every confirmation
\* line other than exactly "y" or "Y" the delete operation is not invoked.
C4_Original ==
    (DeleteAsked /\ ConfirmationLine(stdin) \notin Yes) => NumCalls("Delete") = 0

\* C4, amended: with a non-empty list and no force flag, the delete operation is
\* not invoked for any confirmation line other than "y" or "Y" with optional
\* white space before and after it (Scanln reads the first word of the line).
C4_DeleteNeedsYes ==
    (DeleteAsked /\ StripSpace(ConfirmationLine(stdin)) \notin Yes) =>
        NumCalls("Delete") = 0

\* a line of two characters that is not a yes was read and the handler returned
\* without a deletion
C4_Witness ==
    /\ DeleteAsked
    /\ Len(ConfirmationLine(stdin)) = 2
    /\ StripSpace(ConfirmationLine(stdin)) \notin Yes
    /\ exit.kind = "return"
    /\ NumCalls("Delete") = 0

\* C5: with a non-empty list and no force flag, for every confirmation line
\* other than exactly "y" or "Y" that ends in a newline (no EOF, no I/O error),
\* the empty line included, ProjectDelete returns normally with status 0 and
\* deletes nothing.
C5_DeclineReturns ==
    (DeleteAsked /\ LineTerminated(stdin) /\ ConfirmationLine(stdin) \notin Yes) =>
        /\ exit.kind = "return"
        /\ exit.code = 0
        /\ NumCalls("Delete") = 0

\* C6: when ListStoppedContainers succeeds with an empty list, with or without
\* the force flag, ProjectDelete prints "No stopped containers", returns
\* normally, reads nothing from standard input and never calls Delete.
C6_NothingToDelete ==
    (/\ action = "delete"
     /\ HandlerFinished
     /\ calls[1].op = "ListStoppedContainers"
     /\ calls[1].err = nil
     /\ calls[1].ret = <<>>) =>
        /\ stdout = <<"No stopped containers">>
        /\ exit.kind = "return"
        /\ stdinReads = 0
        /\ stdinPos = 0
        /\ NumCalls("Delete") = 0

\* the list was empty, the force flag set and a "y" waiting on standard input
C6_Witness ==
    /\ action = "delete"
    /\ HandlerFinished
    /\ calls[1].err = nil
    /\ calls[1].ret = <<>>
    /\ c.force
    /\ StripSpace(ConfirmationLine(stdin)) \in Yes

\* a decimal number as strconv.Atoi accepts it
Numeric(s) ==
    LET body == IF Len(s) > 0 /\ s[1] \in {"+", "-"} THEN Tail(s) ELSE s
    IN  Len(body) > 0 /\ \A i \in 1..Len(body) : body[i] \in Digits

\* no "=" in the token, or a count after the first "=" that is not a number
MalformedToken(t) ==
    \/ \A i \in 1..Len(t) : t[i] # "="
    \/ \E k \in 1..Len(t) :
          /\ t[k] = "="
          /\ \A j \in 1..(k - 1) : t[j] # "="
          /\ ~Numeric(SubSeq(t, k + 1, Len(t)))

\* C7: when the argument list of ProjectScale has a malformed token at any
\* position, the scale operation is never called and the handler ends in the
\* Fatalf of line 265 or 272.
C7_MalformedScale ==
    (action = "scale" /\ \E i \in 1..Len(context.args) : MalformedToken(context.args[i])) =>
        /\ NumCalls("Scale") = 0
        /\ HandlerFinished => FatalAt(265) \/ FatalAt(272)

\* a well-formed token followed by a malformed one, and the handler has ended
C7_Witness ==
    /\ action = "scale"
    /\ HandlerFinished
    /\ Len(c.args) = 2
    /\ ~MalformedToken(c.args[1])
    /\ MalformedToken(c.args[2])
    /\ exit.kind = "fatal"

\* C8: with no positional argument ProjectRun ends the process before calling
\* Run; with one or more it calls Run exactly once with the first argument as
\* the service and the remaining arguments as the command.
C8_RunArguments ==
    (action = "run" /\ HandlerFinished) =>
        IF Len(c.args) = 0
        THEN exit.kind \in {"fatal", "panic"} /\ NumCalls("Run") = 0
        ELSE /\ NumCalls("Run") = 1
             /\ calls[1].a = <<c.args[1], Tail(c.args)>>

\* C9: ProjectPort with a number of positional arguments other than 2 ends in
\* the Fatalf of line 60 and never calls Port; with exactly 2 it calls Port
\* exactly once with the first argument as service and the second as port.
C9_PortArguments ==
    action = "port" =>
        /\ Len(context.args) # 2 => NumCalls("Port") = 0
        /\ HandlerFinished =>
              IF Len(c.args) # 2
              THEN FatalAt(60)
              ELSE /\ NumCalls("Port") = 1
                   /\ calls[1].a = <<context.args[1], context.args[2]>>

\* port was run with three arguments and ended in the Fatalf
C9_Witness ==
    /\ action = "port"
    /\ HandlerFinished
    /\ Len(c.args) = 3
    /\ FatalAt(60)

\* C10: factory.Create is called at most once; when it fails, the process ends
\* in the Fatalf of line 41 with a non-zero status, the action is never invoked
\* and no project operation is called; when it succeeds, the action is invoked
\* exactly once, with the project created and the context WithProject received.
C10_WithProject ==
    /\ factoryCalls <= 1
    /\ pc # "start" => factoryCalls = 1
    /\ (factoryCalls = 1 /\ factoryRet.err # nil) =>
          /\ FatalAt(41)
          /\ actionCalls = 0
          /\ calls = <<>>
    /\ (factoryCalls = 1 /\ factoryRet.err = nil) =>
          /\ actionCalls = 1
          /\ p = factoryRet.proj
          /\ p \in Projects
          /\ c = context
          /\ \A i \in 1..Len(calls) : calls[i].proj = factoryRet.proj

\* the factory failed and the process ended
C10_Witness ==
    /\ factoryCalls = 1
    /\ factoryRet.err # nil
    /\ FatalAt(41)
    /\ actionCalls = 0

\* the index of the first "=" of a token that has one
FirstEq(t) == CHOOSE k \in 1..Len(t) : t[k] = "=" /\ \A j \in 1..(k - 1) : t[j] # "="

\* the service name of a well-formed token: what precedes the first "="
TokenName(t) == SubSeq(t, 1, FirstEq(t) - 1)

RECURSIVE Pow10(_)
Pow10(n) == IF n = 0 THEN 1 ELSE 10 * Pow10(n - 1)

RECURSIVE PlaceValueSum(_, _)
PlaceValueSum(ds, i) ==
    IF i > Len(ds) THEN 0
    ELSE DigitVal(ds[i]) * Pow10(Len(ds) - i) + PlaceValueSum(ds, i + 1)

\* the count of a well-formed token: the decimal number after the first "="
TokenCount(t) ==
    LET n == SubSeq(t, FirstEq(t) + 1, Len(t))
    IN  IF n[1] = "-" THEN 0 - PlaceValueSum(Tail(n), 1)
        ELSE IF n[1] = "+" THEN PlaceValueSum(Tail(n), 1)
        ELSE PlaceValueSum(n, 1)

\* C11: ProjectScale calls Scale only when every token is well-formed, and then
\* exactly once when it has ended; the keys of the map passed are exactly the
\* names of the tokens, one entry per name, and each name maps to the count of
\* the last token with that name in argument order.
C11_LastWins ==
    action = "scale" =>
        LET args == context.args
            wellFormed == \A i \in 1..Len(args) : ~MalformedToken(args[i])
        IN  /\ NumCalls("Scale") <= 1
            /\ (HandlerFinished /\ wellFormed) => NumCalls("Scale") = 1
            /\ NumCalls("Scale") = 1 =>
                  LET m == calls[1].a
                  IN  /\ wellFormed
                      /\ DOMAIN m = {TokenName(args[i]) : i \in 1..Len(args)}
                      /\ \A i \in 1..Len(args) :
                            (\A j \in (i + 1)..Len(args) : TokenName(args[j]) # TokenName(args[i]))
                                => m[TokenName(args[i])] = TokenCount(args[i])

\* scale was called for two tokens with the same non-empty name and different counts
C11_Witness ==
    /\ action = "scale"
    /\ NumCalls("Scale") = 1
    /\ Len(c.args) = 2
    /\ TokenName(c.args[1]) = TokenName(c.args[2])
    /\ TokenName(c.args[1]) # <<>>
    /\ TokenCount(c.args[1]) # TokenCount(c.args[2])

\* the i-th call is the p.Log of the log goroutine of ProjectUp
IsUpLog(i) == action = "up" /\ calls[i].op = "Log"

\* the i-th call has returned to its caller
Returned(i) ==
    IF IsUpLog(i) THEN pcLog \in {"send", "done"}
    ELSE IF action = "up" /\ calls[i].op = "Stop"
    THEN pcSig \in {"sendDone", "done"} \/ FatalAt(79)
    ELSE TRUE

\* the i-th call has returned an error
ErrReturned(i) == calls[i].err # nil /\ Returned(i)

\* C12 as stated, seen at the end of the invocation: when a project operation
\* has returned an error, the handler does not return normally and the process
\* ends with a non-zero status.
C12_Original ==
    \A i \in 1..Len(calls) :
        ErrReturned(i) =>
            /\ exit.kind # "return"
            /\ exit.kind # "none" => exit.code # 0

\* C12, amended: when a project operation other than the p.Log of the log
\* goroutine of ProjectUp returns an error, the process ends at once in a Fatal
\* with a non-zero status and no project operation is called afterwards; the
\* error of that p.Log is fatal (line 147, no stop call) when the signal
\* goroutine receives it, and is dropped when the signal case was taken; when
\* ListStoppedContainers fails, ProjectDelete prompts for nothing, reads
\* nothing and does not call Delete.
C12_ErrorsFatal ==
    /\ [](\A i \in 1..Len(calls) :
            /\ (ErrReturned(i) /\ ~IsUpLog(i)) =>
                  /\ exit.kind = "fatal"
                  /\ exit.code # 0
                  /\ pc = "exited"
            /\ (ErrReturned(i) /\ IsUpLog(i) /\ branch = "err") =>
                  /\ FatalAt(147)
                  /\ NumCalls("Stop") = 0
            /\ (action = "delete" /\ i = 1 /\ calls[i].err # nil) =>
                  /\ FatalAt(209)
                  /\ Len(calls) = 1
                  /\ stdout = <<>>
                  /\ stdinReads = 0)
    /\ [][(\E i \in 1..Len(calls) : ErrReturned(i) /\ ~IsUpLog(i)) => calls' = calls]_vars

\* ListStoppedContainers failed with no force flag: the process ended at line 209
C12_Witness ==
    /\ action = "delete"
    /\ ~c.force
    /\ Len(calls) = 1
    /\ calls[1].err # nil
    /\ FatalAt(209)

\* ProjectDelete ran and ListStoppedContainers returned a non-empty list
DeleteListed ==
    /\ action = "delete"
    /\ HandlerFinished
    /\ calls[1].err = nil
    /\ calls[1].ret # <<>>

\* C13: fmt.Scanln is called at most once in an invocation, and only by
\* ProjectDelete with a non-empty list and no force flag; nothing is consumed
\* from standard input otherwise; with the force flag and a non-empty list,
\* Delete is called exactly once and standard input is not read.
C13_StdinOnce ==
    /\ stdinReads <= 1
    /\ stdinReads = 0 => stdinPos = 0
    /\ stdinReads = 1 => DeleteListed /\ ~c.force
    /\ (DeleteListed /\ c.force) =>
          /\ NumCalls("Delete") = 1
          /\ stdinReads = 0
          /\ stdinPos = 0
          /\ stdout = <<>>

\* a forced delete of a non-empty list with a "n" waiting on standard input
C13_Witness ==
    /\ DeleteListed
    /\ c.force
    /\ stdin # <<>>
    /\ stdin[1] = "n"
    /\ NumCalls("Delete") = 1

\* C14: when p.Up fails, the process ends in the Fatal of line 129: signal.Notify
\* is not called, neither goroutine is started, Log and Stop are never called.
C14_UpFails ==
    (action = "up" /\ calls # <<>> /\ calls[1].err # nil) =>
        /\ FatalAt(129)
        /\ ~notified
        /\ pcLog = "idle"
        /\ pcSig = "idle"
        /\ Len(calls) = 1
        /\ NumCalls("Log") = 0
        /\ NumCalls("Stop") = 0

\* p.Up failed in attached mode
C14_Witness ==
    /\ action = "up"
    /\ ~c.d
    /\ Len(calls) = 1
    /\ calls[1].op = "Up"
    /\ calls[1].err # nil
    /\ exit.kind = "fatal"

\* C15: with the d flag, after p.Up succeeded ProjectUp has returned: no
\* goroutine is started, no signal handler registered, Log and Stop are never
\* called and nothing is sent on cleanupDone.
C15_Detached ==
    (action = "up" /\ c.d /\ calls # <<>> /\ calls[1].err = nil) =>
        /\ exit.kind = "return"
        /\ exit.code = 0
        /\ ~notified
        /\ pcLog = "idle"
        /\ pcSig = "idle"
        /\ Len(calls) = 1
        /\ cleanupDone = 0

\* a detached up that succeeded
C15_Witness ==
    /\ action = "up"
    /\ c.d
    /\ Len(calls) = 1
    /\ calls[1].op = "Up"
    /\ calls[1].err = nil
    /\ pc = "returned"

\* C16: in attached mode ProjectUp has returned only when exactly one value
\* was handed over on cleanupDone, and that after the graceful stop returned
\* nil or after the signal goroutine received a nil log result.
C16_ReturnAfterCompletion ==
    (action = "up" /\ actionCalls = 1 /\ ~c.d /\ exit.kind = "return") =>
        /\ cleanupDone = 1
        /\ pcSig = "done"
        /\ \/ /\ branch = "signal"
              /\ NumCalls("Stop") = 1
              /\ StopErr = nil
           \/ /\ branch = "err"
              /\ pcLog = "done"
              /\ logResult = nil
              /\ NumCalls("Stop") = 0

\* an attached up returned after a graceful stop, the log stream still running
C16_Witness ==
    /\ action = "up"
    /\ ~c.d
    /\ exit.kind = "return"
    /\ branch = "signal"
    /\ pcLog = "logging"
    /\ cleanupDone = 1

\* C17 as stated: whenever p.Log has returned, the send of the log goroutine on
\* errChan eventually completes.
C17_Original == (action = "up" /\ pcLog = "send") ~> (pcLog = "done")

\* C17, amended: when p.Log has returned, the send on errChan completes if the
\* signal goroutine takes the errChan case of its select, and only then; when
\* the signal case was taken, the send never completes and the log goroutine
\* stays blocked on it until the process ends.
C17_SendCompletes ==
    /\ [](pcLog = "done" => branch = "err")
    /\ [](branch = "signal" => pcLog # "done")
    /\ (pcLog = "send") ~> (pcLog = "done" \/ branch = "signal")

\* ProjectUp returned after the signal case while the log goroutine is at its send
C17_Witness ==
    /\ action = "up"
    /\ branch = "signal"
    /\ pcLog = "send"
    /\ pcSig = "done"
    /\ pc = "returned"

\* C18: in an attached up the signal goroutine takes one case of its select:
\* Stop is called at most once and exactly when the signal case was taken, the
\* send on errChan is received exactly when the errChan case was taken,
\* completion is signalled at most once, and the process never ends in the
\* log-error Fatal of line 147 after a call of Stop.
C18_OneBranch ==
    action = "up" =>
        /\ NumCalls("Stop") <= 1
        /\ NumCalls("Log") <= 1
        /\ cleanupDone <= 1
        /\ NumCalls("Stop") = 1 <=> branch = "signal"
        /\ FatalAt(147) => NumCalls("Stop") = 0 /\ branch = "err"
        /\ FatalAt(79) => branch = "signal"
        /\ branch = "none" => pcSig \in {"idle", "select"} /\ cleanupDone = 0

\* the stop is in progress while the log result waits on errChan and a second
\* signal is buffered
C18_Witness ==
    /\ action = "up"
    /\ branch = "signal"
    /\ pcSig = "stopping"
    /\ pcLog = "send"
    /\ signalChan = 1

\* C19: in an attached up, once a termination signal was delivered or p.Log
\* has returned, the invocation eventually ends: ProjectUp returns or the
\* process exits in a Fatal.
C19_Terminates ==
    (action = "up" /\ notified /\ (signals > 0 \/ pcLog = "send")) ~> (exit.kind # "none")

\* every signal was delivered, the log result was received and ProjectUp returned
C19_Witness ==
    /\ action = "up"
    /\ signals = MaxSignals
    /\ branch = "err"
    /\ pcLog = "done"
    /\ exit.kind = "return"

====
